---- MODULE Spec2Model ----
(***************************************************************************)
(* Model of the FAQ semantic-search engine of src/faq_search_demo.py:      *)
(* FAQSearchEngine.__init__, load_vectors, embed_query, search and         *)
(* interactive_search, driven by main or by a client calling search        *)
(* (specification Spec); and of the offline scripts that build and ship    *)
(* the snapshot: create_embeddings of src/embed_aven_faq_enhanced.py and   *)
(* src/embed_aven_faq.py, and load_vectors and main of                     *)
(* src/pinecone_upload_example.py (specification SpecPipeline).            *)
(*                                                                         *)
(* Conventions                                                             *)
(*  - Python lists are TLA+ sequences; Python index i is position i+1.     *)
(*  - A similarity score is kept in thousandths (1.0 is 1000, 0.0 is 0),   *)
(*    rounded towards zero.                                                *)
(*  - A text of the snapshot (question, answer, section of entry i) is the *)
(*    pair <<field, i>>: every entry has its own texts.                    *)
(***************************************************************************)
EXTENDS Integers, Sequences, FiniteSets, TLC

VARIABLES
    api_key,          \* os.getenv("OPENAI_API_KEY") is set
    argsort_ties,     \* how this numpy build orders equal keys in argsort
    pc,               \* position of the program
    caller,           \* who called search: "client", "loop" or "none"
    error,            \* the exception that ended construction, or "none"
    vectors,          \* self.vectors
    questions,        \* self.questions
    answers,          \* self.answers
    sections,         \* self.sections
    loaded,           \* history: the four lists as load_vectors left them
    top_k,            \* search's parameter top_k       (these four live
    query_embedding,  \* search's local query_embedding  from the call to
    similarities,     \* search's local similarities     the next call)
    top_indices,      \* search's local top_indices
    results,          \* what the last returning search returned
    outcome,          \* how the last search ended: "none", "ok" or the exception
    last_call,        \* history: the most recent search that returned, kept
                      \* while the search in flight has the same arguments
    had_error,        \* history: some search of this session has raised
    output,           \* the last block interactive_search printed
    typed,            \* history: the last line input() returned, as typed
    printed,          \* print statements of the current result block done
    trace,            \* history: the embedder calls and rankings of the
                      \* search entered last, in order
    exhausted,        \* the input source has reached its end
    \* create_embeddings (embed_aven_faq_enhanced.py, embed_aven_faq.py)
    ce_pc,            \* "idle", "call", "loop" or "returned"
    ce_questions,     \* the parameter questions; text t is the number t
    model,            \* the parameter model
    ce_i,             \* the loop variable i
    embeddings,       \* the local embeddings, returned at the end
    requests,         \* history: the batches sent to the provider, in order
    reported,         \* history: the batch numbers whose failure was printed
    off_contract,     \* history: a response had another length than its batch
    \* pinecone_upload_example.py
    up_pc,            \* "idle", "main", "upload" or "stopped"
    up_file,          \* history: the vectors file that load_vectors found
    up_vectors,       \* main's vectors: what load_vectors returned
    up_output,        \* what load_vectors printed
    \* main of embed_aven_faq_enhanced.py
    main_pc,          \* "idle", "main", "embedding" or "done"
    faq_data,         \* main's faq_data; entry e is the number e
    pinecone_vectors, \* main's vectors, from create_pinecone_vectors
    written,          \* what this run wrote to output_file: "nothing",
                      \* "snapshot", or "damaged" by a failed write
    main_output,      \* the last message main printed
    built_ids         \* history: the ids of the snapshot of the run before

\* The variables of the search engine and its session.
engine == <<api_key, argsort_ties, pc, caller, error, vectors, questions, answers,
            sections, loaded, top_k, query_embedding, similarities, top_indices,
            results, outcome, last_call, had_error, output, typed, printed, trace,
            exhausted>>

\* The variables of the offline scripts.
\* The variables of main of embed_aven_faq_enhanced.py.
build == <<main_pc, faq_data, pinecone_vectors, written, main_output, built_ids>>

pipeline == <<ce_pc, ce_questions, model, ce_i, embeddings, requests, reported,
              off_contract, up_pc, up_file, up_vectors, up_output, build>>

vars == <<engine, pipeline>>

store == <<vectors, questions, answers, sections>>
locals == <<top_k, query_embedding, similarities, top_indices>>

-----------------------------------------------------------------------------
(* Bounds and input domains                                                *)

MaxRecords == 3

\* Embeddings: four directions of the plane, the zero vector, and one
\* vector of another length.
Embeddings == {<<1, 0>>, <<0, 1>>, <<1, 1>>, <<0 - 1, 0>>, <<0, 0>>, <<1>>}

\* An entry without the key 'values' (no input has an empty embedding).
Missing == <<>>
\* last_call before any search has returned.
NoCall == [returned |-> FALSE, embedding |-> <<>>, top_k |-> 0, vectors |-> <<>>,
           results |-> <<>>]
Fields == {"question", "answer", "section"}

\* The metadata of a snapshot entry, as the set of the fields it has.
MetadataShapes == {Fields} \cup {Fields \ {f} : f \in Fields}

\* Snapshot entries: every embedding (or none) with full metadata, and one
\* embedding with each incomplete metadata.
Entries ==
    [values : Embeddings \cup {Missing}, metadata : {Fields}]
        \cup [values : {<<1, 0>>}, metadata : MetadataShapes]

Snapshots == UNION {[1..n -> Entries] : n \in 0..MaxRecords}

TopKs == (0 - 1)..(MaxRecords + 1)

\* Line 133: interactive_search asks for the three best entries.
interactive_top_k == 3

\* Lines 137-141: the print statements of one result.
lines_per_result == 5

\* A line of input is the sequence of its characters.
Lines == {<<"q">>, <<" ", "Q", "u", "i", "t", " ">>, <<"E", "x", "i", "t">>,
          <<" ">>, <<"h", "i">>, <<"q", "u", "i", "t", "s">>}

\* Line 123: the words that end the session.
sentinels == {<<"q", "u", "i", "t">>, <<"e", "x", "i", "t">>, <<"q">>}

\* The most questions create_embeddings is called with: three batches, the
\* last of one question.
MaxQuestions == 201

\* embed_aven_faq_enhanced.py line 101 (embed_aven_faq.py line 44).
batch_size == 100

\* embed_aven_faq_enhanced.py line 128 (embed_aven_faq.py line 65): the
\* length of the vectors put in place of a failed batch.
zero_dimension == 1536

\* Values of the parameter model: the default and another embedding model.
Models == {"text-embedding-3-small", "text-embedding-3-large"}

\* How the provider answers a request that does not fail: with one vector
\* per text, with one vector too few, with one too many, or with vectors of
\* another length than the model's.
Answers == {"ok", "short", "long", "resized"}

\* embed_aven_faq_enhanced.py line 196: the length validate_vectors accepts.
expected_dimension == 1536

\* embed_aven_faq_enhanced.py line 133 (embed_aven_faq.py line 84).
id_prefix == "aven_faq"

\* Indices beyond the snapshots built here, around the four-digit limit.
IdSamples == {0, 9, 10, 999, 1000, 9999, 10000, 10001, 99999, 100000}

\* The most vectors a snapshot file of the uploader holds.
MaxFileVectors == 2

\* What open() and json.load find at the uploader's file path: no file, a
\* file that is not JSON, or a list of count vectors.
Files ==
    {[exists |-> FALSE, json |-> FALSE, count |-> 0],
     [exists |-> TRUE, json |-> FALSE, count |-> 0]}
        \cup {[exists |-> TRUE, json |-> TRUE, count |-> c] : c \in 0..MaxFileVectors}

-----------------------------------------------------------------------------
(* Pure helpers                                                            *)

\* str.strip() that leaves the blanks in place.
Strip_verbatim(s) == s

\* str.strip(): the line without its leading and trailing blanks.
RECURSIVE Strip(_)
Strip(s) ==
    IF s = <<>> THEN s
    ELSE IF Head(s) = " " THEN Strip(Tail(s))
    ELSE IF s[Len(s)] = " " THEN Strip(SubSeq(s, 1, Len(s) - 1))
    ELSE s

\* The lower-case letter of each capital that the input lines use.
lowercase == [c \in {"Q", "U", "I", "T", "E", "X"} |->
                 CASE c = "Q" -> "q" [] c = "U" -> "u" [] c = "I" -> "i"
                   [] c = "T" -> "t" [] c = "E" -> "e" [] c = "X" -> "x"]

\* str.lower() that leaves the capitals as they are.
Lower_verbatim(s) == s

\* str.lower().
Lower(s) ==
    [k \in 1..Len(s) |-> IF s[k] \in DOMAIN lowercase THEN lowercase[s[k]] ELSE s[k]]

RECURSIVE Dot(_, _, _)
Dot(a, b, n) == IF n = 0 THEN 0 ELSE a[n] * b[n] + Dot(a, b, n - 1)

\* The integer square root: lo * lo <= n < hi * hi throughout.
RECURSIVE Bisect(_, _, _)
Bisect(n, lo, hi) ==
    IF hi - lo <= 1 THEN lo
    ELSE LET m == (lo + hi) \div 2
         IN IF m * m <= n THEN Bisect(n, m, hi) ELSE Bisect(n, lo, m)

\* (46341 squared no longer fits a 32-bit integer)
ISqrt(n) == Bisect(n, 0, IF n < 46341 THEN n + 1 ELSE 46341)

Sign(x) == IF x < 0 THEN 0 - 1 ELSE IF x > 0 THEN 1 ELSE 0

\* A cosine computed as dot / (norm * norm) with no guard: 0/0 on a zero
\* vector, written here as a value outside the range of the scores.
cosine_similarity_unguarded(a, b) ==
    LET n == Len(a)
        d == Dot(a, b, n)
        na == Dot(a, a, n)
        nb == Dot(b, b, n)
    IN IF na = 0 \/ nb = 0 THEN 0 - 2000
       ELSE Sign(d) * ISqrt((d * d * 1000000) \div (na * nb))

\* sklearn's cosine_similarity([a], [b])[0][0] for two vectors of one length:
\* both are normalised, a zero norm being replaced by 1, and multiplied.
cosine_similarity(a, b) ==
    LET n == Len(a)
        d == Dot(a, b, n)
        na == Dot(a, a, n)
        nb == Dot(b, b, n)
    IN IF na = 0 \/ nb = 0 THEN 0
       ELSE Sign(d) * ISqrt((d * d * 1000000) \div (na * nb))

\* A comparison that takes a query of one number for a scalar, which fits
\* every vector.
Incompatible_broadcast(q, vs) ==
    Len(q) # 1 /\ \E i \in 1..Len(vs) : Len(vs[i]) # Len(q)

\* cosine_similarity raises ValueError on vectors of different lengths.
Incompatible(q, vs) == \E i \in 1..Len(vs) : Len(vs[i]) # Len(q)

\* Lines 91-94: one similarity per stored vector, in store order.
compute_similarities(q, vs) == [i \in 1..Len(vs) |-> cosine_similarity(q, vs[i])]

\* A sort whose order of equal values changes from one call to the next.
argsort_unsettled(a, ties) ==
    LET Before(i, j) == \/ a[i] < a[j]
                        \/ /\ a[i] = a[j]
                           /\ IF last_call.returned THEN i < j ELSE i > j
        Pos(i) == 1 + Cardinality({j \in 1..Len(a) : Before(j, i)})
    IN [p \in 1..Len(a) |-> CHOOSE i \in 1..Len(a) : Pos(i) = p]

\* np.argsort(a): the indices of a in ascending order of value. Its default
\* sort is not stable: where equal values go is a property of the build,
\* here either by ascending index (the insertion sort numpy uses on short
\* arrays) or by descending index.
argsort(a, ties) ==
    LET Before(i, j) == \/ a[i] < a[j]
                        \/ /\ a[i] = a[j]
                           /\ IF ties = "ascending" THEN i < j ELSE i > j
        Pos(i) == 1 + Cardinality({j \in 1..Len(a) : Before(j, i)})
    IN [p \in 1..Len(a) |-> CHOOSE i \in 1..Len(a) : Pos(i) = p]

\* s[::-1]
Reversed(s) == [i \in 1..Len(s) |-> s[Len(s) + 1 - i]]

\* s[:k-1] for a positive k: one element short.
SliceTo_one_short(s, k) ==
    LET n == IF k >= 1 THEN (IF k - 1 < Len(s) THEN k - 1 ELSE Len(s))
             ELSE (IF Len(s) + k > 0 THEN Len(s) + k ELSE 0)
    IN SubSeq(s, 1, n)

\* s[:k], with Python's reading of a negative k
SliceTo(s, k) ==
    LET n == IF k >= 0 THEN (IF k < Len(s) THEN k ELSE Len(s))
             ELSE (IF Len(s) + k > 0 THEN Len(s) + k ELSE 0)
    IN SubSeq(s, 1, n)

\* Line 97 without the reversal: the lowest scores first.
select_top_ascending(sims, k, ties) == SliceTo(argsort(sims, ties), k)

\* Line 97
select_top(sims, k, ties) == SliceTo(Reversed(argsort(sims, ties)), k)

\* Results whose rank is len(results), counted from 0.
build_results_zero_based(idx, sims, qs, as, ss) ==
    [p \in 1..Len(idx) |->
        [rank |-> p - 1,
         question |-> qs[idx[p]],
         answer |-> as[idx[p]],
         section |-> ss[idx[p]],
         similarity_score |-> sims[idx[p]]]]

\* Lines 99-108: one result per selected index, ranks counted from 1.
\* (similarity_percentage is the same score formatted as text; left out.)
build_results(idx, sims, qs, as, ss) ==
    [p \in 1..Len(idx) |->
        [rank |-> p,
         question |-> qs[idx[p]],
         answer |-> as[idx[p]],
         section |-> ss[idx[p]],
         similarity_score |-> sims[idx[p]]]]

Column(data, f) == [i \in 1..Len(data) |-> <<f, i>>]
AllHave(data, f) == \A i \in 1..Len(data) : f \in data[i].metadata
AllHaveValues(data) == \A i \in 1..Len(data) : data[i].values # Missing

-----------------------------------------------------------------------------
Init ==
    /\ api_key \in BOOLEAN
    /\ argsort_ties \in {"ascending", "descending"}
    /\ pc = "main"
    /\ caller = "none"
    /\ error = "none"
    /\ vectors = <<>>
    /\ questions = <<>>
    /\ answers = <<>>
    /\ sections = <<>>
    /\ loaded = <<>>
    /\ top_k = 0
    /\ query_embedding = <<>>
    /\ similarities = <<>>
    /\ top_indices = <<>>
    /\ results = <<>>
    /\ outcome = "none"
    /\ last_call = NoCall
    /\ had_error = FALSE
    /\ output = "none"
    /\ typed = <<>>
    /\ printed = 0
    /\ trace = <<>>
    /\ exhausted = FALSE
    /\ ce_pc = "idle"
    /\ ce_questions = <<>>
    /\ model = "none"
    /\ ce_i = 0
    /\ embeddings = <<>>
    /\ requests = <<>>
    /\ reported = {}
    /\ off_contract = FALSE
    /\ up_pc = "idle"
    /\ up_file = "none"
    /\ up_vectors = <<>>
    /\ up_output = "none"
    /\ main_pc = "idle"
    /\ faq_data = <<>>
    /\ pinecone_vectors = <<>>
    /\ written = "nothing"
    /\ main_output = "none"
    /\ built_ids = <<>>

\* A constructor that leaves the key to the first embedding call.
construct_lazy ==
    /\ pc = "main"
    /\ pc' = "load"
    /\ error' = "none"
    /\ UNCHANGED <<pipeline, trace, exhausted, typed, printed, had_error, api_key, argsort_ties, caller,
                   store, loaded, locals, results, outcome, last_call, output>>

\* Lines 20-30 and 158, 163-168: the constructor up to the client; without
\* the key it raises and main reports the failure and ends.
construct ==
    /\ pc = "main"
    /\ IF api_key
       THEN pc' = "load" /\ error' = "none" /\ output' = output
       ELSE pc' = "failed" /\ error' = "ValueError" /\ output' = "failed to initialize"
    /\ UNCHANGED <<pipeline, trace, exhausted, typed, printed, had_error, api_key, argsort_ties, caller, store, loaded, locals, results,
                   outcome, last_call>>

\* Lines 35-54 on a file that does not exist.
load_vectors_not_found ==
    /\ pc = "load"
    /\ pc' = "failed"
    /\ error' = "FileNotFoundError"
    /\ output' = "failed to initialize"
    /\ UNCHANGED <<pipeline, trace, exhausted, typed, printed, had_error, api_key, argsort_ties, caller, store, loaded, locals, results,
                   outcome, last_call>>

\* Lines 39-54 on a file holding the list data: four comprehensions, each
\* assigned when it completes; a missing key raises KeyError out of the
\* constructor and leaves the later lists as they were.
load_list(data) ==
    LET v == AllHaveValues(data)
        q == v /\ AllHave(data, "question")
        a == q /\ AllHave(data, "answer")
        s == a /\ AllHave(data, "section")
    IN
    /\ pc = "load"
    /\ vectors' = IF v THEN [i \in 1..Len(data) |-> data[i].values] ELSE vectors
    /\ questions' = IF q THEN Column(data, "question") ELSE questions
    /\ answers' = IF a THEN Column(data, "answer") ELSE answers
    /\ sections' = IF s THEN Column(data, "section") ELSE sections
    /\ loaded' = <<vectors', questions', answers', sections'>>
    /\ IF s
       THEN pc' = "ready" /\ error' = "none" /\ output' = "loaded"
       ELSE pc' = "failed" /\ error' = "KeyError" /\ output' = "failed to initialize"
    /\ UNCHANGED <<pipeline, trace, exhausted, typed, printed, had_error, api_key, argsort_ties, caller, locals, results,
                   outcome, last_call>>

\* Lines 33 and 35-54: the constructor loads the snapshot file it finds.
load_vectors == pc = "load" /\ \E data \in Snapshots : load_list(data)

\* Line 76: search is entered with top_k = k; its locals are unbound and
\* the previous return value is dropped.
enter_search(who, k) ==
    /\ pc' = "embed"
    /\ caller' = who
    /\ top_k' = k
    /\ query_embedding' = <<>>
    /\ similarities' = <<>>
    /\ top_indices' = <<>>
    /\ results' = <<>>
    /\ outcome' = "none"
    /\ printed' = 0
    /\ trace' = <<>>
    /\ last_call' = IF last_call.returned /\ last_call.top_k = k
                    THEN last_call ELSE NoCall

\* A client calls search(query, top_k) on the constructed engine.
call_search(k) ==
    /\ pc = "ready"
    /\ enter_search("client", k)
    /\ UNCHANGED <<pipeline, exhausted, typed, had_error, api_key, argsort_ties, error, store, loaded, output>>

\* Lines 112-119 and 161: main enters the interactive loop right after the
\* construction.
interactive_search ==
    /\ pc = "ready"
    /\ outcome = "none"
    /\ pc' = "input"
    /\ output' = "banner"
    /\ UNCHANGED <<pipeline, trace, exhausted, typed, printed, had_error, api_key, argsort_ties, caller, error, store, loaded, locals,
                   results, outcome, last_call>>

\* Lines 121-133: one line of input. A sentinel ends the loop, an empty line
\* is skipped, any other line is searched with top_k=3.
read_line(line) ==
    LET query == Strip(line) IN
    /\ pc = "input"
    /\ ~exhausted
    /\ typed' = line
    /\ IF Lower(query) \in sentinels
       THEN /\ pc' = "done"
            /\ output' = "goodbye"
            /\ UNCHANGED <<caller, locals, results, outcome, last_call, printed, trace>>
       ELSE IF query = <<>>
       THEN UNCHANGED <<pc, output, caller, locals, results, outcome, last_call,
                        printed, trace>>
       ELSE /\ enter_search("loop", interactive_top_k)
            /\ output' = "searching"
    /\ UNCHANGED <<pipeline, exhausted, had_error, api_key, argsort_ties, error, store,
                   loaded>>

\* An exception raised inside search that the loop lets through: it ends the
\* session.
raise_from_search_fatal(exc) ==
    /\ outcome' = exc
    /\ had_error' = TRUE
    /\ caller' = "none"
    /\ top_k' = 0
    /\ query_embedding' = <<>>
    /\ similarities' = <<>>
    /\ top_indices' = <<>>
    /\ results' = <<>>
    /\ IF caller = "loop"
       THEN pc' = "done" /\ output' = "error"
       ELSE pc' = "ready" /\ output' = output

\* Lines 121 and 150: the input source is at its end, input() raises
\* EOFError, which is an Exception and lands in the handler of line 150.
end_of_input ==
    /\ pc = "input"
    /\ exhausted' = TRUE
    /\ pc' = "handler"
    /\ UNCHANGED <<pipeline, trace, typed, printed, had_error, api_key, argsort_ties,
                   output, caller, error, store, loaded, locals, results, outcome,
                   last_call>>

\* Lines 151-152 and 119: the handler reports the EOFError and the loop
\* calls input() again.
report_end_of_input ==
    /\ pc = "handler"
    /\ output' = "error"
    /\ pc' = "input"
    /\ UNCHANGED <<pipeline, trace, exhausted, typed, printed, had_error, api_key,
                   argsort_ties, caller, error, store, loaded, locals, results, outcome,
                   last_call>>

\* Where an exception raised inside search lands: the loop's handler of
\* lines 150-152 reports it and reads the next line; a client gets it back.
\* The frame of search is gone.
raise_from_search(exc) ==
    /\ outcome' = exc
    /\ had_error' = TRUE
    /\ caller' = "none"
    /\ top_k' = 0
    /\ query_embedding' = <<>>
    /\ similarities' = <<>>
    /\ top_indices' = <<>>
    /\ results' = <<>>
    /\ IF caller = "loop"
       THEN pc' = "input" /\ output' = "error"
       ELSE pc' = "ready" /\ output' = output

\* Lines 56-71 and 88: the provider answers with an embedding.
embed_query(e) ==
    /\ pc = "embed"
    /\ query_embedding' = e
    /\ trace' = Append(trace, "embed")
    /\ pc' = "rank"
    /\ last_call' = IF last_call.returned /\ last_call.embedding = e
                    THEN last_call ELSE NoCall
    /\ UNCHANGED <<pipeline, exhausted, typed, printed, had_error, api_key, argsort_ties, caller, error, store, loaded, top_k,
                   similarities, top_indices, results, outcome, output>>

\* A search that answers a provider failure with the empty list.
embed_query_swallowed ==
    /\ pc = "embed"
    /\ outcome' = "ok"
    /\ results' = <<>>
    /\ caller' = "none"
    /\ pc' = IF caller = "loop" THEN "print" ELSE "ready"
    /\ UNCHANGED <<pipeline, trace, exhausted, typed, printed, had_error, api_key, argsort_ties, error,
                   store, loaded, locals, output, last_call>>

\* An embedder call that is made a second time when the first one fails.
embed_query_fails_retried ==
    /\ pc = "embed"
    /\ trace' = Append(trace, "embed")
    /\ IF trace = <<>>
       THEN UNCHANGED <<pc, outcome, had_error, caller, locals, results, output>>
       ELSE raise_from_search("EmbeddingError")
    /\ UNCHANGED <<pipeline, exhausted, typed, printed, api_key, argsort_ties, error, store, loaded,
                   last_call>>

\* Lines 72-74: the provider call fails; embed_query re-raises.
embed_query_fails ==
    /\ pc = "embed"
    /\ raise_from_search("EmbeddingError")
    /\ trace' = Append(trace, "embed")
    /\ UNCHANGED <<pipeline, exhausted, typed, printed, api_key, argsort_ties, error, store, loaded,
                   last_call>>

\* Lines 90-110: similarities, selection and result list. A stored vector
\* whose length differs from the query's makes cosine_similarity raise.
rank_and_return ==
    IF Incompatible(query_embedding, vectors)
    THEN /\ raise_from_search("ValueError")
         /\ UNCHANGED last_call
    ELSE /\ similarities' = compute_similarities(query_embedding, vectors)
         /\ top_indices' = select_top(similarities', top_k, argsort_ties)
         /\ results' = build_results(top_indices', similarities', questions,
                                     answers, sections)
         /\ outcome' = "ok"
         /\ last_call' = [returned |-> TRUE, embedding |-> query_embedding,
                          top_k |-> top_k, vectors |-> vectors,
                          results |-> results']
         /\ caller' = "none"
         /\ pc' = IF caller = "loop" THEN "print" ELSE "ready"
         /\ UNCHANGED <<top_k, query_embedding, output, had_error>>

\* The ranking done on the engine's own list, which it leaves in the
\* reverse order (as an in-place self.vectors.reverse() would).
search_rank_in_place ==
    /\ pc = "rank"
    /\ rank_and_return
    /\ trace' = Append(trace, "rank")
    /\ vectors' = Reversed(vectors)
    /\ UNCHANGED <<pipeline, exhausted, typed, printed, api_key, argsort_ties, error, questions, answers, sections,
                   loaded>>

\* Lines 90-110 within search: nothing of the engine is assigned.
search_rank ==
    /\ pc = "rank"
    /\ rank_and_return
    /\ trace' = Append(trace, "rank")
    /\ UNCHANGED <<pipeline, exhausted, typed, printed, api_key, argsort_ties, error, store, loaded>>

\* Lines 135-145, one print statement at a time: the five statements of
\* each result in turn, or the no-results line; then the closing print()
\* and back to the head of the loop.
print_results ==
    /\ pc = "print"
    /\ IF results = <<>>
       THEN output' = "no results" /\ pc' = "input" /\ printed' = printed
       ELSE IF printed < lines_per_result * Len(results)
       THEN output' = "results" /\ pc' = pc /\ printed' = printed + 1
       ELSE output' = output /\ pc' = "input" /\ printed' = printed
    /\ UNCHANGED <<pipeline, trace, exhausted, typed, had_error, api_key, argsort_ties, caller, error, store, loaded, locals,
                   results, outcome, last_call>>

\* Lines 147-149: Ctrl-C anywhere inside the loop's try block.
keyboard_interrupt ==
    /\ \/ pc \in {"input", "print"}
       \/ pc \in {"embed", "rank"} /\ caller = "loop"
    /\ pc' = "done"
    /\ output' = "goodbye"
    /\ caller' = "none"
    /\ UNCHANGED <<pipeline, trace, exhausted, typed, printed, had_error, api_key, argsort_ties, error, store, loaded, locals, results,
                   outcome, last_call>>

Next ==
    \/ construct
    \/ load_vectors_not_found
    \/ load_vectors
    \/ \E k \in TopKs : call_search(k)
    \/ interactive_search
    \/ \E line \in Lines : read_line(line)
    \/ end_of_input
    \/ report_end_of_input
    \/ \E e \in Embeddings : embed_query(e)
    \/ embed_query_fails
    \/ search_rank
    \/ print_results
    \/ keyboard_interrupt

Spec == Init /\ [][Next]_vars

\* The steps the program takes by itself go on: the constructor, the
\* ranking, the printing, input() on a source that is at its end, and the
\* handler of its EOFError.
\* (When a line is typed, when the provider answers and when Ctrl-C is
\* pressed is up to the environment.)
Fairness ==
    /\ WF_vars(construct)
    /\ WF_vars(search_rank)
    /\ WF_vars(print_results)
    /\ WF_vars(exhausted /\ end_of_input)
    /\ WF_vars(report_end_of_input)

SpecFair == Spec /\ Fairness

-----------------------------------------------------------------------------
(* The offline scripts                                                     *)

\* The length of the vectors the provider returns for a model (line 128's
\* comment for the default model; the larger model has twice the length).
Dimension(m) == IF m = "text-embedding-3-small" THEN 1536 ELSE 3072

\* The embedding of text t by model m: whose it is, and its length.
Embedding(t, m) == [of |-> t, dim |-> Dimension(m)]

\* [0.0] * 1536
ZeroVector == [of |-> 0, dim |-> zero_dimension]

\* The Python slice s[from:to] that also takes s[to].
Slice_through(s, from, to) ==
    SubSeq(s, from + 1, IF to + 1 < Len(s) THEN to + 1 ELSE Len(s))

\* The Python slice s[from:to], for 0 <= from <= to.
Slice(s, from, to) == SubSeq(s, from + 1, IF to < Len(s) THEN to ELSE Len(s))

\* response.data for the request batch to model m.
Response(batch, m, answer) ==
    LET full == [k \in 1..Len(batch) |-> Embedding(batch[k], m)]
    IN CASE answer = "ok" -> full
         [] answer = "short" -> SubSeq(full, 1, Len(full) - 1)
         [] answer = "long" -> Append(full, full[Len(full)])
         [] answer = "resized" -> [k \in 1..Len(batch) |-> [of |-> batch[k], dim |-> 256]]

\* Line 107: the batch of the current iteration.
batch == Slice(ce_questions, ce_i, ce_i + batch_size)

\* Line 108.
batch_num == ce_i \div batch_size + 1

\* Each behaviour of this specification follows one script: the embedding
\* script (its main, or a call of create_embeddings by a client that holds
\* the key) or the uploader.
InitPipeline ==
    /\ api_key \in BOOLEAN
    /\ argsort_ties = "ascending"
    /\ pc = "main"
    /\ caller = "none"
    /\ error = "none"
    /\ vectors = <<>>
    /\ questions = <<>>
    /\ answers = <<>>
    /\ sections = <<>>
    /\ loaded = <<>>
    /\ top_k = 0
    /\ query_embedding = <<>>
    /\ similarities = <<>>
    /\ top_indices = <<>>
    /\ results = <<>>
    /\ outcome = "none"
    /\ last_call = NoCall
    /\ had_error = FALSE
    /\ output = "none"
    /\ typed = <<>>
    /\ printed = 0
    /\ trace = <<>>
    /\ exhausted = FALSE
    /\ ce_pc = "call"
    /\ ce_questions = <<>>
    /\ model = "none"
    /\ ce_i = 0
    /\ embeddings = <<>>
    /\ requests = <<>>
    /\ reported = {}
    /\ off_contract = FALSE
    /\ up_pc = "main"
    /\ up_file = [exists |-> FALSE, json |-> FALSE, count |-> 0]
    /\ up_vectors = <<>>
    /\ up_output = "none"
    /\ main_pc = "main"
    /\ faq_data = <<>>
    /\ pinecone_vectors = <<>>
    /\ written = "nothing"
    /\ main_output = "none"
    /\ built_ids = <<>>

\* Lines 87-102: create_embeddings is called with n questions and model m.
create_embeddings(n, m) ==
    /\ ce_pc = "call"
    /\ up_pc = "main"
    /\ main_pc = "main"
    /\ api_key
    /\ ce_questions' = [t \in 1..n |-> t]
    /\ model' = m
    /\ embeddings' = <<>>
    /\ ce_i' = 0
    /\ ce_pc' = "loop"
    /\ UNCHANGED <<engine, build, requests, reported, off_contract, up_pc, up_file,
                   up_vectors, up_output>>

\* Lines 106-123: one iteration whose request the provider answers.
embed_batch(answer) ==
    /\ ce_pc = "loop"
    /\ ce_i < Len(ce_questions)
    /\ requests' = Append(requests, [input |-> batch, answer |-> answer])
    /\ embeddings' = embeddings \o Response(batch, model, answer)
    /\ off_contract' = (off_contract \/ answer # "ok")
    /\ ce_i' = ce_i + batch_size
    /\ UNCHANGED <<engine, build, ce_pc, ce_questions, model, reported, up_pc, up_file,
                   up_vectors, up_output>>

\* An iteration whose failed batch gets no vectors.
embed_batch_fails_unfilled ==
    /\ ce_pc = "loop"
    /\ ce_i < Len(ce_questions)
    /\ requests' = Append(requests, [input |-> batch, answer |-> "fail"])
    /\ reported' = reported \cup {batch_num}
    /\ ce_i' = ce_i + batch_size
    /\ UNCHANGED <<engine, build, ce_pc, ce_questions, model, embeddings, off_contract,
                   up_pc, up_file, up_vectors, up_output>>

\* An iteration without the handler of lines 125-128: the failure leaves
\* create_embeddings.
embed_batch_fails_raised ==
    /\ ce_pc = "loop"
    /\ ce_i < Len(ce_questions)
    /\ requests' = Append(requests, [input |-> batch, answer |-> "fail"])
    /\ ce_pc' = "raised"
    /\ UNCHANGED <<engine, build, ce_questions, model, ce_i, embeddings, reported,
                   off_contract, up_pc, up_file, up_vectors, up_output>>

\* Lines 106-114 and 125-128: one iteration whose request fails.
embed_batch_fails ==
    /\ ce_pc = "loop"
    /\ ce_i < Len(ce_questions)
    /\ requests' = Append(requests, [input |-> batch, answer |-> "fail"])
    /\ reported' = reported \cup {batch_num}
    /\ embeddings' = embeddings \o [k \in 1..Len(batch) |-> ZeroVector]
    /\ ce_i' = ce_i + batch_size
    /\ UNCHANGED <<engine, build, ce_pc, ce_questions, model, off_contract, up_pc, up_file,
                   up_vectors, up_output>>

\* Lines 106 and 130: the range is exhausted and embeddings is returned.
return_embeddings ==
    /\ ce_pc = "loop"
    /\ ce_i >= Len(ce_questions)
    /\ ce_pc' = "returned"
    /\ UNCHANGED <<engine, build, ce_questions, model, ce_i, embeddings, requests, reported,
                   off_contract, up_pc, up_file, up_vectors, up_output>>

\* pinecone_upload_example.py lines 10-30 and 183: load_vectors on the file
\* it finds; main gets the list, or [] for a missing or invalid file.
upload_load_vectors(file) ==
    /\ up_pc = "main"
    /\ ce_pc = "call"
    /\ main_pc = "main"
    /\ up_file' = file
    /\ up_vectors' = IF file.exists /\ file.json
                     THEN [v \in 1..file.count |-> v] ELSE <<>>
    /\ up_output' = IF ~file.exists THEN "not found"
                    ELSE IF ~file.json THEN "invalid json" ELSE "loaded"
    /\ up_pc' = "loaded"
    /\ UNCHANGED <<engine, build, ce_pc, ce_questions, model, ce_i, embeddings, requests,
                   reported, off_contract>>

\* pinecone_upload_example.py lines 185-191: main stops on an empty list
\* and uploads any other.
upload_main ==
    /\ up_pc = "loaded"
    /\ up_pc' = IF up_vectors = <<>> THEN "stopped" ELSE "upload"
    /\ UNCHANGED <<engine, build, ce_pc, ce_questions, model, ce_i, embeddings, requests,
                   reported, off_contract, up_file, up_vectors, up_output>>

\* The decimal digits of a natural number.
digit == <<"0", "1", "2", "3", "4", "5", "6", "7", "8", "9">>

RECURSIVE Digits(_)
Digits(i) ==
    IF i < 10 THEN <<digit[i + 1]>> ELSE Append(Digits(i \div 10), digit[(i % 10) + 1])

\* Zeros in front of s up to the width w.
RECURSIVE ZeroPad(_, _)
ZeroPad(s, w) == IF Len(s) >= w THEN s ELSE ZeroPad(<<"0">> \o s, w)

\* f"{i}": the index without padding.
Format_unpadded(i) == Digits(i)

\* f"{i:04d}"
Format04d(i) == ZeroPad(Digits(i), 4)

\* Line 149: f"{id_prefix}_{i:04d}", as the prefix, the underscore and the
\* digits.
make_id(prefix, i) == <<prefix, "_">> \o Format04d(i)

\* Lines 145-163: one vector per pair of zip(faq_data, embeddings), with the
\* id of its index and the metadata of its FAQ entry.
create_pinecone_vectors(data, embs, prefix) ==
    [k \in 1..(IF Len(data) < Len(embs) THEN Len(data) ELSE Len(embs)) |->
        [id |-> make_id(prefix, k - 1),
         values |-> embs[k],
         metadata |-> [section |-> <<"section", data[k]>>,
                       question |-> <<"question", data[k]>>,
                       answer |-> <<"answer", data[k]>>,
                       source_url |-> <<"source_url", data[k]>>,
                       type |-> "faq",
                       company |-> "aven",
                       embedding_model |-> "text-embedding-3-small"]]]

\* A validation that only asks for a vector to be there.
validate_vectors_nonempty(vs) == vs # <<>>

\* Lines 165-201.
validate_vectors(vs) ==
    /\ vs # <<>>
    /\ \A k \in 1..Len(vs) :
           /\ {"id", "values", "metadata"} \subseteq DOMAIN vs[k]
           /\ {"section", "question", "answer", "source_url"} \subseteq DOMAIN vs[k].metadata
           /\ vs[k].values.dim = expected_dimension

\* Lines 203-252: main checks the key, loads n FAQ entries, and calls
\* create_embeddings on their questions with the default model.
main_start(n) ==
    /\ main_pc = "main"
    /\ ce_pc = "call"
    /\ up_pc = "main"
    /\ IF ~api_key
       THEN /\ main_pc' = "done"
            /\ main_output' = "no key"
            /\ UNCHANGED <<faq_data, ce_pc, ce_questions, model>>
       ELSE /\ faq_data' = [e \in 1..n |-> e]
            /\ IF n = 0
               THEN /\ main_pc' = "done"
                    /\ main_output' = "no data"
                    /\ UNCHANGED <<ce_pc, ce_questions, model>>
               ELSE /\ main_pc' = "embedding"
                    /\ main_output' = "creating embeddings"
                    /\ ce_questions' = faq_data'
                    /\ model' = "text-embedding-3-small"
                    /\ ce_pc' = "loop"
    /\ UNCHANGED <<engine, ce_i, embeddings, requests, reported, off_contract, up_pc,
                   up_file, up_vectors, up_output, pinecone_vectors, written, built_ids>>

\* Lines 254-276: after create_embeddings has returned, the count check, the
\* vectors, their validation and the write, which can fail and then leaves
\* no file or a damaged one.
main_save ==
    /\ main_pc = "embedding"
    /\ ce_pc = "returned"
    /\ main_pc' = "done"
    /\ IF Len(embeddings) # Len(ce_questions)
       THEN /\ main_output' = "count mismatch"
            /\ UNCHANGED <<pinecone_vectors, written>>
       ELSE /\ pinecone_vectors' = create_pinecone_vectors(faq_data, embeddings, id_prefix)
            /\ IF ~validate_vectors(pinecone_vectors')
               THEN /\ main_output' = "validation failed"
                    /\ UNCHANGED written
               ELSE \E w \in {"snapshot", "damaged", "nothing"} :
                        /\ written' = w
                        /\ main_output' = IF w = "snapshot" THEN "saved" ELSE "error saving"
    /\ UNCHANGED <<engine, ce_pc, ce_questions, model, ce_i, embeddings, requests,
                   reported, off_contract, up_pc, up_file, up_vectors, up_output,
                   faq_data, built_ids>>

\* The script is run once more on the same FAQ file, after a run that
\* saved a snapshot: main up to its call of create_embeddings.
main_again ==
    /\ main_pc = "done"
    /\ written = "snapshot"
    /\ built_ids = <<>>
    /\ built_ids' = [k \in 1..Len(pinecone_vectors) |-> pinecone_vectors[k].id]
    /\ main_pc' = "embedding"
    /\ main_output' = "creating embeddings"
    /\ pinecone_vectors' = <<>>
    /\ written' = "nothing"
    /\ ce_pc' = "loop"
    /\ ce_i' = 0
    /\ embeddings' = <<>>
    /\ requests' = <<>>
    /\ reported' = {}
    /\ off_contract' = FALSE
    /\ UNCHANGED <<engine, ce_questions, model, up_pc, up_file, up_vectors, up_output,
                   faq_data>>

NextPipeline ==
    \/ \E n \in 0..MaxQuestions, m \in Models : create_embeddings(n, m)
    \/ \E answer \in Answers : embed_batch(answer)
    \/ embed_batch_fails
    \/ return_embeddings
    \/ \E file \in Files : upload_load_vectors(file)
    \/ upload_main
    \/ \E n \in 0..MaxQuestions : main_start(n)
    \/ main_save
    \/ main_again

SpecPipeline == InitPipeline /\ [][NextPipeline]_vars

-----------------------------------------------------------------------------
(* Properties                                                              *)

\* A search has returned and its frame is still in the state.
Returned == outcome = "ok"

N == Len(vectors)
Selected == {top_indices[p] : p \in 1..Len(top_indices)}
PositionOf(i) == CHOOSE p \in 1..Len(top_indices) : top_indices[p] = i
IsZero(v) == \A i \in 1..Len(v) : v[i] = 0
Min(a, b) == IF a < b THEN a ELSE b

\* C1: of two stored records with equal similarity to the query, the one
\* with the lower load-order index comes first in the result list, and is
\* the one returned when only one of them fits in top_k (stated for
\* top_k >= 1; what a top_k <= 0 returns is C3's).
C1_TieLowerIndexFirst ==
    (Returned /\ top_k >= 1) =>
        \A i, j \in 1..N :
            (i < j /\ similarities[i] = similarities[j] /\ j \in Selected)
                => (i \in Selected /\ PositionOf(i) < PositionOf(j))

\* C2: for top_k > 0 a returning search gives exactly min(top_k, N) results,
\* in non-increasing order of score, and no record left out has a strictly
\* higher similarity than a returned one.
C2_TopKHighestFirst ==
    (Returned /\ top_k > 0) =>
        /\ Len(results) = Min(top_k, N)
        /\ \A p, q \in 1..Len(results) :
               p < q => results[p].similarity_score >= results[q].similarity_score
        /\ \A i \in (1..N) \ Selected : \A j \in Selected :
               similarities[i] <= similarities[j]

\* C2 witness: a search that had to leave out a record of strictly lower
\* score and returned two records of different scores.
C2_Witness ==
    /\ Returned /\ top_k > 0 /\ top_k < N
    /\ Len(results) = 2
    /\ results[1].similarity_score > results[2].similarity_score
    /\ \E i \in (1..N) \ Selected : similarities[i] < results[2].similarity_score

\* C3: a search on an empty store, or with top_k <= 0 (zero or negative),
\* returns the empty list.
C3_EmptyForNonPositiveTopK ==
    (Returned /\ (N = 0 \/ top_k <= 0)) => results = <<>>

\* C4: for top_k >= N a returning search gives exactly N results, in which
\* every stored record appears exactly once.
C4_AllRecordsOnce ==
    (Returned /\ top_k >= N) =>
        /\ Len(results) = N
        /\ \A i \in 1..N :
               Cardinality({p \in 1..Len(results) :
                               /\ results[p].question = questions[i]
                               /\ results[p].answer = answers[i]
                               /\ results[p].section = sections[i]}) = 1

\* C4 witness: all of a store of at least two records returned, for a top_k
\* above the store size.
C4_Witness == Returned /\ N >= 2 /\ top_k > N /\ Len(results) = N

\* C5: the ranking of a query against a store of its own dimension always
\* completes, and gives score 0 to every all-zero stored embedding, and to
\* every record when the query is all zeros.
C5_ZeroVectorScoresZero ==
    [][(pc = "rank" /\ pc' # "done" /\ ~Incompatible(query_embedding, vectors))
        => /\ outcome' = "ok"
           /\ \A i \in 1..N :
                  (IsZero(vectors[i]) \/ IsZero(query_embedding))
                      => similarities'[i] = 0]_vars

\* C5 witness: a returned search over a store holding an all-zero embedding
\* next to a record that scores above 0.
C5_Witness ==
    /\ Returned
    /\ \E i, j \in 1..N : IsZero(vectors[i]) /\ similarities[j] > 0

AsFirstQuery(e, k) ==
    LET sims == compute_similarities(e, loaded[1])
        idx == select_top(sims, k, argsort_ties)
    IN build_results(idx, sims, loaded[2], loaded[3], loaded[4])

\* C7: whatever queries came before it, a returning search returns what the
\* same query embedding and top_k return as the first query of the session.
C7_NoSessionMemory ==
    Returned => results = AsFirstQuery(query_embedding, top_k)

\* C7 witness: in the interactive loop, a search returned and printed two
\* results or more after an earlier search of the session had failed.
C7_Witness ==
    /\ Returned /\ pc = "input" /\ output = "results"
    /\ had_error
    /\ Len(results) >= 2

\* C8: from the end of the loading on, the engine's vectors, questions,
\* answers and sections are what load_vectors left.
C8_StoreUnchanged ==
    pc \in {"ready", "embed", "rank", "print", "input", "done"} => store = loaded

\* C8 witness: a search returned, and a later one failed in the embedding.
C8_Witness ==
    /\ outcome = "EmbeddingError"
    /\ last_call.returned
    /\ N >= 2

\* C9: every store that loaded successfully holds embeddings of one length.
C9_LoadedStoreHasOneDimension ==
    pc \in {"ready", "embed", "rank", "print", "input", "done"} =>
        \A i, j \in 1..N : Len(vectors[i]) = Len(vectors[j])

\* C10: a failed load leaves no record in the engine, and in every state the
\* four lists have one length and hold the same records index by index.
C10_NoPartialLoad ==
    /\ error = "KeyError" => store = <<<<>>, <<>>, <<>>, <<>>>>
    /\ Len(questions) = N /\ Len(answers) = N /\ Len(sections) = N
    /\ \A i \in 1..N : /\ questions[i] = <<"question", i>>
                       /\ answers[i] = <<"answer", i>>
                       /\ sections[i] = <<"section", i>>

\* C12: while OPENAI_API_KEY is unset the program is in main or has failed
\* with the constructor's ValueError: nothing was loaded, the loop was not
\* entered, no line was read, and no search or embedding call was made.
C12_NoKeyNoSession ==
    ~api_key =>
        /\ pc \in {"main", "failed"}
        /\ pc = "failed" => error = "ValueError"
        /\ store = <<<<>>, <<>>, <<>>, <<>>>>
        /\ output \in {"none", "failed to initialize"}
        /\ typed = <<>>
        /\ caller = "none" /\ outcome = "none" /\ ~had_error
        /\ query_embedding = <<>> /\ results = <<>> /\ last_call = NoCall

\* C12 witness: the constructor has raised for the missing key.
C12_Witness == ~api_key /\ pc = "failed" /\ error = "ValueError"

\* C13: a step of search that leaves the embedding call without an
\* embedding (and is not an interrupt) hands the embedder's failure to the
\* caller: the outcome is the embedding error, there is no result list, no
\* similarity and no selection was computed, and no returned call is recorded.
C13_EmbedderFailurePropagates ==
    [][(pc = "embed" /\ pc' \notin {"rank", "done"}) =>
           /\ outcome' = "EmbeddingError"
           /\ results' = <<>>
           /\ similarities' = <<>> /\ top_indices' = <<>>
           /\ last_call' = last_call
           /\ pc' = IF caller = "loop" THEN "input" ELSE "ready"]_vars

\* C13 witness: a client's search on a loaded store ended in the embedding
\* error.
C13_Witness ==
    /\ pc = "ready"
    /\ outcome = "EmbeddingError"
    /\ results = <<>>
    /\ N >= 1

\* C14: a step of the loop's search that ends in an exception reports the
\* error and puts the loop back at input(), with the store as it was.
C14_LoopSurvivesQueryFailure ==
    [][(caller = "loop" /\ pc \in {"embed", "rank"} /\ outcome' \notin {"none", "ok"}) =>
           /\ pc' = "input"
           /\ output' = "error"
           /\ store' = store]_vars

\* C14 witness: after a failed query of the session (client calls come
\* before the loop only while none has ended), a later query was answered
\* and its results printed in full.
C14_Witness ==
    /\ had_error
    /\ pc = "print"
    /\ results # <<>>
    /\ printed = lines_per_result * Len(results)

\* The input lines that are quit, exit or q up to case and surrounding blanks.
SentinelLines == {<<"q">>, <<" ", "Q", "u", "i", "t", " ">>, <<"E", "x", "i", "t">>}

\* C15: the step that reads a sentinel line ends the loop with the goodbye
\* and starts no search (no local of search, result, outcome or recorded
\* call changes); and nothing happens after the loop has ended.
C15_SentinelEndsLoop ==
    [][/\ (pc = "input" /\ typed' \in SentinelLines) =>
              /\ pc' = "done"
              /\ output' = "goodbye"
              /\ UNCHANGED <<caller, locals, results, outcome, last_call>>
       /\ pc = "done" => UNCHANGED vars]_vars

\* C15 witness: the loop ended on the line " Quit " after an answered query.
C15_Witness ==
    /\ pc = "done"
    /\ typed = <<" ", "Q", "u", "i", "t", " ">>
    /\ Returned

\* C16: when the loop has ended, the output holds whole result blocks only:
\* the print statements done for the last query are a multiple of the five
\* of one result.
C16_NoPartialResultBlock ==
    pc = "done" => printed % lines_per_result = 0

\* The number of the batch that question t is sent in, and the slots of
\* batch b.
BatchOf(t) == (t - 1) \div batch_size + 1
SlotsOf(b) == {t \in 1..Len(ce_questions) : BatchOf(t) = b}

\* C17: as long as every answered request got one vector per text, the
\* vectors collected are one per question sent so far, and what
\* create_embeddings returns has exactly one slot per question, slot t
\* holding the embedding of question t, or a zero vector exactly when the
\* batch of question t failed.
C17_OneSlotPerQuestion ==
    ~off_contract =>
        /\ ce_pc = "loop" => Len(embeddings) = Min(ce_i, Len(ce_questions))
        /\ ce_pc = "returned" =>
               /\ Len(embeddings) = Len(ce_questions)
               /\ \A t \in 1..Len(ce_questions) :
                      IF requests[BatchOf(t)].answer = "fail"
                      THEN embeddings[t].of = 0
                      ELSE embeddings[t].of = ce_questions[t]

\* C17 witness: three batches, the second failed, the others answered.
C17_Witness ==
    /\ ce_pc = "returned"
    /\ ~off_contract
    /\ Len(requests) = 3
    /\ requests[1].answer = "ok"
    /\ requests[2].answer = "fail"
    /\ requests[3].answer = "ok"

\* C18: a provider failure never leaves create_embeddings; every failed
\* batch is reported (and no other), and when the call returns every batch
\* was sent. As long as every answered request got one vector per text, the
\* slots of a failed batch hold zero vectors and the slots of every other
\* batch sent hold the embeddings of its questions.
C18_FailedBatchZeroFilled ==
    /\ ce_pc # "raised"
    /\ reported = {b \in 1..Len(requests) : requests[b].answer = "fail"}
    /\ ce_pc = "returned" =>
           Len(requests) = (Len(ce_questions) + batch_size - 1) \div batch_size
    /\ ~off_contract =>
           \A b \in 1..Len(requests) : \A t \in SlotsOf(b) :
               embeddings[t] = IF b \in reported THEN ZeroVector
                               ELSE Embedding(ce_questions[t], model)

\* C18 witness: the first of three batches failed, the call went on and
\* returned.
C18_Witness ==
    /\ ce_pc = "returned"
    /\ ~off_contract
    /\ Len(requests) = 3
    /\ reported = {1}

\* C19: as long as the provider has answered with vectors of the model's
\* length, one per text, every vector collected by create_embeddings has the
\* length of the embeddings of the model it was called with.
C19_OneDimensionOfTheModel ==
    ~off_contract =>
        \A t \in 1..Len(embeddings) : embeddings[t].dim = Dimension(model)

\* C20: the b-th request carries the questions 100(b-1)+1 to 100b (to the
\* last question, if that comes first), which are between 1 and 100 texts,
\* and when create_embeddings returns it has sent ceil(n/100) requests.
C20_Batching ==
    /\ \A b \in 1..Len(requests) :
           /\ Len(requests[b].input) \in 1..100
           /\ requests[b].input =
                  SubSeq(ce_questions, 100 * (b - 1) + 1, Min(100 * b, Len(ce_questions)))
    /\ ce_pc = "returned" => Len(requests) = (Len(ce_questions) + 99) \div 100

\* C20 witness: more than 200 questions were sent in three requests, the
\* last one of a single text.
C20_Witness ==
    /\ ce_pc = "returned"
    /\ Len(ce_questions) > 200
    /\ Len(requests) = 3
    /\ Len(requests[3].input) = 1

\* C11: the uploader's load_vectors returns to main only for a file that
\* exists (a missing file ends it with the not-found error instead).
C11_MissingSourceFails ==
    up_pc \in {"loaded", "stopped", "upload"} => up_file.exists

\* C22: the ranking step of a query whose embedding has another length than
\* some stored vector ends in an error for that query: ValueError, no result
\* list, the store as it was; in the loop the error is reported and the loop
\* is back at input(), a client gets the exception.
C22_DimensionMismatchFailsTheQuery ==
    [][(pc = "rank" /\ pc' # "done"
           /\ \E i \in 1..N : Len(vectors[i]) # Len(query_embedding)) =>
           /\ outcome' = "ValueError"
           /\ results' = <<>>
           /\ store' = store
           /\ IF caller = "loop" THEN pc' = "input" /\ output' = "error"
              ELSE pc' = "ready"]_vars

\* C22 witness: the loop has reported the ValueError of a query against a
\* loaded store and is reading again.
C22_Witness ==
    /\ pc = "input"
    /\ outcome = "ValueError"
    /\ output = "error"
    /\ N >= 1

\* C23: every result has the identifier and the section, question, answer
\* and source URL of the record whose score it carries.
C23_ResultCarriesItsRecord ==
    Returned =>
        \A p \in 1..Len(results) :
            /\ {"record_id", "source_url"} \subseteq DOMAIN results[p]
            /\ results[p].question = questions[top_indices[p]]
            /\ results[p].answer = answers[top_indices[p]]
            /\ results[p].section = sections[top_indices[p]]
            /\ results[p].similarity_score = similarities[top_indices[p]]

\* C24: the p-th result of a returned list has rank p.
C24_RanksCountFromOne ==
    Returned => \A p \in 1..Len(results) : results[p].rank = p

\* C24 witness: a list of three results.
C24_Witness == Returned /\ Len(results) = 3 /\ results[3].rank = 3

\* C25: in a search that returns for top_k >= 1, a stored record equal to
\* the non-zero query, with no equal record at a lower index, has the score
\* 1.0 and is the first result.
C25_IdenticalVectorFirst ==
    (Returned /\ top_k >= 1) =>
        \A i \in 1..N :
            (/\ vectors[i] = query_embedding
             /\ ~IsZero(query_embedding)
             /\ \A j \in 1..(i - 1) : vectors[j] # query_embedding)
                => (similarities[i] = 1000 /\ top_indices[1] = i)

\* C26: the search entered last has called the embedder at most once and
\* ranked at most once, the embedder first: while it waits for the embedding
\* nothing was called or computed, the ranking starts with one embedder call
\* done and an embedding at hand, a search that failed in the embedder made
\* one call and never ranked, and one that returned (or failed in the
\* ranking) made one call and ranked once.
C26_EmbedOnceThenRank ==
    /\ trace \in {<<>>, <<"embed">>, <<"embed", "rank">>}
    /\ pc = "embed" => (trace = <<>> /\ query_embedding = <<>> /\ similarities = <<>>)
    /\ pc = "rank" => (trace = <<"embed">> /\ query_embedding # <<>> /\ similarities = <<>>)
    /\ outcome = "EmbeddingError" => trace = <<"embed">>
    /\ outcome \in {"ok", "ValueError"} => trace = <<"embed", "rank">>

\* C26 witness: a client's search has returned results after one embedder
\* call and one ranking.
C26_Witness ==
    /\ pc = "ready"
    /\ Returned
    /\ trace = <<"embed", "rank">>
    /\ Len(results) >= 1

\* C27: once the input source is at its end, the interactive loop ends.
C27_EndOfInputEndsLoop == exhausted ~> (pc = "done")

\* C28: the step that reads a line of blanks (after another line) leaves the
\* loop at input() and changes nothing else: no search is entered, no
\* embedder call or ranking is made, and nothing is printed.
C28_BlankLineSkipped ==
    [][(pc = "input" /\ typed' = <<" ">> /\ typed' # typed) =>
           /\ pc' = "input"
           /\ UNCHANGED <<output, printed, caller, locals, results, outcome, last_call,
                          trace, had_error, store>>]_vars

\* C28 witness: a blank line was read after a printed result block, which
\* is still the last output.
C28_Witness ==
    /\ pc = "input"
    /\ typed = <<" ">>
    /\ output = "results"

\* The number that a sequence of decimal digits writes.
DigitOf(c) == CHOOSE d \in 0..9 : digit[d + 1] = c
RECURSIVE NumberOf(_)
NumberOf(s) ==
    IF s = <<>> THEN 0
    ELSE 10 * NumberOf(SubSeq(s, 1, Len(s) - 1)) + DigitOf(s[Len(s)])

\* C21: the id of the k-th record of main's vectors is aven_faq, an
\* underscore and at least four decimal digits that write k-1; the ids of
\* one snapshot are pairwise distinct; and a run on the same FAQ data gives
\* every record the id it had in the snapshot of the run before. Beyond the
\* sizes built here, the format keeps at least four digits, writes the
\* index, and keeps different indices apart.
C21_IdsPaddedDistinctStable ==
    /\ \A k \in 1..Len(pinecone_vectors) :
           LET id == pinecone_vectors[k].id
               num == SubSeq(id, 3, Len(id))
           IN /\ id[1] = "aven_faq" /\ id[2] = "_"
              /\ Len(num) >= 4
              /\ \A c \in 1..Len(num) : \E d \in 1..10 : num[c] = digit[d]
              /\ NumberOf(num) = k - 1
    /\ Cardinality({pinecone_vectors[k].id : k \in 1..Len(pinecone_vectors)})
           = Len(pinecone_vectors)
    /\ \A k \in 1..Min(Len(pinecone_vectors), Len(built_ids)) :
           pinecone_vectors[k].id = built_ids[k]
    /\ \A a, b \in IdSamples :
           /\ Len(Format04d(a)) >= 4
           /\ NumberOf(Format04d(a)) = a
           /\ a # b => make_id(id_prefix, a) # make_id(id_prefix, b)

\* C21 witness: a second run on the same data, in which a batch failed this
\* time, has saved a snapshot of more than a hundred records.
C21_Witness ==
    /\ built_ids # <<>>
    /\ written = "snapshot"
    /\ reported # {}
    /\ Len(pinecone_vectors) > 100

C30_RecordHoldsItsOwnEmbedding ==
    written = "snapshot" =>
        \A k \in 1..Len(pinecone_vectors) :
            /\ pinecone_vectors[k].metadata.question = <<"question", faq_data[k]>>
            /\ pinecone_vectors[k].metadata.answer = <<"answer", faq_data[k]>>
            /\ pinecone_vectors[k].metadata.section = <<"section", faq_data[k]>>
            /\ pinecone_vectors[k].metadata.source_url = <<"source_url", faq_data[k]>>
            /\ pinecone_vectors[k].values.of \in {faq_data[k], 0}

-----------------------------------------------------------------------------
====
